---- MODULE Spec2Model ----
(***************************************************************************)
(* Model of src/streamlit_app.py: the Streamlit bike-sharing dashboard.    *)
(*                                                                         *)
(* One session of the app is a sequence of script runs.  The first run     *)
(* happens when the page is opened; every later run is caused by the user  *)
(* changing one of the two sidebar date pickers.  Each run executes main() *)
(* from top to bottom: load_data() (memoised by st.cache_data), the        *)
(* st.stop() check, the date conversion, the two date_input widgets, the   *)
(* two filters, the two group-by-mean aggregations and the four charts.    *)
(*                                                                         *)
(* Dates are day numbers.  A table is a sequence of rows in file order;    *)
(* the cleaned CSV files are chronological, one row per (date, hour) in    *)
(* the hourly file and one row per date in the daily file.  The daily      *)
(* column temp only feeds the scatter plot and is not represented.  The    *)
(* decorative sidebar image (lines 47-53) changes nothing the run computes *)
(* afterwards and is not represented either.                               *)
(*                                                                         *)
(* Library calls are modelled by what the libraries do:                    *)
(*   pandas   read_csv raises FileNotFoundError for a missing file and     *)
(*            another exception for an unparsable one; to_datetime raises  *)
(*            ValueError for an unparsable date; groupby(...).mean() has   *)
(*            one group per key present, sorted by key.                    *)
(*   streamlit  cache_data memoises load_data (no arguments, so one        *)
(*            entry) and replays the st.error call recorded inside it;     *)
(*            date_input called without min_value/max_value limits the     *)
(*            picker to ten years either side of the default value; a      *)
(*            range is picked start date first, and the picker delivers a  *)
(*            1-tuple (and the script reruns) until the end date is        *)
(*            picked.                                                      *)
(*   seaborn (0.13) / matplotlib  a categorical plot of an empty table     *)
(*            returns the axes untouched; otherwise it puts one tick per   *)
(*            category on a category locator; set_xticklabels raises       *)
(*            ValueError only on a FixedLocator whose tick count differs   *)
(*            from the number of labels, and otherwise assigns the labels  *)
(*            to the ticks by position.                                    *)
(***************************************************************************)
EXTENDS Integers, Sequences, FiniteSets, TLC

VARIABLES
    hour_csv,                   \* 'hour_df_2012_cleaned.csv' on disk
    day_csv,                    \* 'day_df_summer_2011_cleaned.csv' on disk
    cache,                      \* the st.cache_data entry of load_data
    reads,                      \* times the body of load_data has run
    date_filter_hour,           \* value of the hourly picker, <<>> before it exists
    date_filter_day,            \* value of the daily picker, <<>> before it exists
    outcome,                    \* how the last run ended
    exception,                  \* the unhandled exception of the last run
    messages,                   \* st.error messages shown by the last run
    filtered_hour_df,
    filtered_day_df,
    average_rentals_per_hour,
    average_rentals_by_weather,
    ax4_xticklabels,            \* label under each bar of the weather chart
    charts                      \* figures passed to st.pyplot, in order

vars == <<hour_csv, day_csv, cache, reads, date_filter_hour, date_filter_day,
          outcome, exception, messages, filtered_hour_df, filtered_day_df,
          average_rentals_per_hour, average_rentals_by_weather,
          ax4_xticklabels, charts>>

----------------------------------------------------------------------------
(* Bounds of the model *)

MaxDate == 2            \* the files hold dates 1..MaxDate
MaxRows == 2            \* rows per file

Dates == 1..MaxDate
Hours == {8, 9}         \* hr, a sample of 0..23
Cnts == {40, 100}       \* cnt
WeekendFlags == {0, 1}  \* is_weekend
WeatherCodes == 1..4    \* weathersit

----------------------------------------------------------------------------
(* Tables *)

HourRows == [dteday : Dates, hr : Hours, is_weekend : WeekendFlags, cnt : Cnts]
DayRows == [dteday : Dates, weathersit : WeatherCodes, cnt : Cnts]

SeqsUpTo(S, n) == UNION {[1..k -> S] : k \in 1..n}

\* chronological, one row per (date, hour), is_weekend a property of the date
IsHourTable(t) ==
    /\ \A i \in 1..(Len(t) - 1) :
          \/ t[i].dteday < t[i + 1].dteday
          \/ t[i].dteday = t[i + 1].dteday /\ t[i].hr < t[i + 1].hr
    /\ \A i, j \in 1..Len(t) :
          t[i].dteday = t[j].dteday => t[i].is_weekend = t[j].is_weekend

\* chronological, one row per date
IsDayTable(t) == \A i \in 1..(Len(t) - 1) : t[i].dteday < t[i + 1].dteday

HourTables == {t \in SeqsUpTo(HourRows, MaxRows) : IsHourTable(t)}
DayTables == {t \in SeqsUpTo(DayRows, MaxRows) : IsDayTable(t)}

HourSample == <<[dteday |-> 1, hr |-> 8, is_weekend |-> 0, cnt |-> 100]>>
DaySample == <<[dteday |-> 1, weathersit |-> 2, cnt |-> 40]>>

\* a file on disk: absent, not a CSV, a CSV whose dteday column holds
\* something that is no date, or a cleaned table
File(kind, rows) == [kind |-> kind, rows |-> rows]
FileKinds == {"missing", "malformed", "baddate", "ok"}

----------------------------------------------------------------------------
(* load_data, lines 20-33 *)

NoTable == <<>>

\* pd.read_csv: the exception raised, "" when the file parses
read_csv(file) ==
    CASE file.kind = "missing" -> "FileNotFoundError"
      [] file.kind = "malformed" -> "ParserError"
      [] OTHER -> ""

\* what load_data returns: the two tables, or (None, None) together with the
\* st.error call recorded while it ran
LoadOk(h, d) == [none |-> FALSE, message |-> "", cause |-> "",
                 hour |-> h, day |-> d]
LoadNone(msg, e) == [none |-> TRUE, message |-> msg, cause |-> e,
                     hour |-> File("missing", NoTable),
                     day |-> File("missing", NoTable)]

\* variant of Handle without the FileNotFoundError clause
Handle_generic(e) == LoadNone("Error loading data", e)

\* the except clause that handles exception e
Handle(e) ==
    IF e = "FileNotFoundError"
        THEN LoadNone("Data files not found", "")
        ELSE LoadNone("Error loading data", e)

load_data(h, d) ==
    IF read_csv(h) # "" THEN Handle(read_csv(h))
    ELSE IF read_csv(d) # "" THEN Handle(read_csv(d))
    ELSE LoadOk(h, d)

\* variant of CacheHit for load_data without @st.cache_data
CacheHit_never(c) == FALSE

\* @st.cache_data: the entry, once filled, is what every later call returns
EmptyCache == [filled |-> FALSE, value |-> LoadNone("", "")]
CacheHit(c) == c.filled

----------------------------------------------------------------------------
(* pandas: min/max of the date column, the boolean-mask filter, groupby-mean *)

Min(S) == CHOOSE x \in S : \A y \in S : x <= y
Max(S) == CHOOSE x \in S : \A y \in S : x >= y
Range(f) == {f[i] : i \in DOMAIN f}

min_date(df) == Min({df[i].dteday : i \in 1..Len(df)})
max_date(df) == Max({df[i].dteday : i \in 1..Len(df)})

\* variant of InRange that excludes the end date
InRange_endExcluded(d, f) == d >= f[1] /\ d < f[2]

\* variant of InRange that reads a backwards pair as the range between its dates
InRange_swapped(d, f) == d >= Min({f[1], f[2]}) /\ d <= Max({f[1], f[2]})

\* (df['dteday'].dt.date >= f[0]) & (df['dteday'].dt.date <= f[1])
InRange(d, f) == d >= f[1] /\ d <= f[2]

RECURSIVE Mask(_, _)
Mask(df, f) ==
    IF df = <<>> THEN <<>>
    ELSE (IF InRange(Head(df).dteday, f) THEN <<Head(df)>> ELSE <<>>)
         \o Mask(Tail(df), f)

\* keys are tuples of integers, ordered as pandas orders a MultiIndex
RECURSIVE KeyLess(_, _)
KeyLess(a, b) ==
    IF a = <<>> \/ b = <<>> THEN FALSE
    ELSE \/ Head(a) < Head(b)
         \/ Head(a) = Head(b) /\ KeyLess(Tail(a), Tail(b))

RECURSIVE SortKeys(_)
SortKeys(K) ==
    IF K = {} THEN <<>>
    ELSE LET least == CHOOSE k \in K : \A o \in K \ {k} : KeyLess(k, o)
         IN  <<least>> \o SortKeys(K \ {least})

RECURSIVE SumCnt(_)
SumCnt(df) == IF df = <<>> THEN 0 ELSE Head(df).cnt + SumCnt(Tail(df))

RECURSIVE Gcd(_, _)
Gcd(a, b) == IF b = 0 THEN a ELSE Gcd(b, a % b)

\* variant of Mean that totals instead of averaging
Mean_sum(df) == [num |-> SumCnt(df), den |-> 1]

\* the mean of cnt over a non-empty group, as a fraction in lowest terms
Mean(df) ==
    LET s == SumCnt(df)
        n == Len(df)
        g == Gcd(s, n)
    IN  [num |-> s \div g, den |-> n \div g]

\* the group key of row r for the grouping columns cols
KeyOf(r, cols) == [i \in 1..Len(cols) |-> r[cols[i]]]

RowsWithKey(df, cols, k) == SelectSeq(df, LAMBDA r : KeyOf(r, cols) = k)

\* df.groupby(cols)['cnt'].mean(): one entry per key present, sorted by key
GroupByMean(df, cols) ==
    LET keys == SortKeys({KeyOf(df[i], cols) : i \in 1..Len(df)})
    IN  [i \in 1..Len(keys) |->
            [key |-> keys[i], cnt |-> Mean(RowsWithKey(df, cols, keys[i]))]]

\* .reset_index(): the key levels become columns again
HourlyMeans(df) ==
    LET g == GroupByMean(df, <<"hr", "is_weekend">>)
    IN  [i \in 1..Len(g) |->
            [hr |-> g[i].key[1], is_weekend |-> g[i].key[2], cnt |-> g[i].cnt]]

\* variant of WeatherMeans with a group for each of the four categories,
\* an undefined mean (0/0) for a category without rows
WeatherMeans_allCategories(df) ==
    [w \in WeatherCodes |->
        LET rows == SelectSeq(df, LAMBDA r : r.weathersit = w)
        IN  [weathersit |-> w,
             cnt |-> IF rows = <<>> THEN [num |-> 0, den |-> 0] ELSE Mean(rows)]]

WeatherMeans(df) ==
    LET g == GroupByMean(df, <<"weathersit">>)
    IN  [i \in 1..Len(g) |-> [weathersit |-> g[i].key[1], cnt |-> g[i].cnt]]

----------------------------------------------------------------------------
(* streamlit date_input, seaborn and matplotlib *)

\* date_input without min_value/max_value: the widget's limits are ten years
\* either side of the default value; on the model's scale of day numbers the
\* ten years are one day, and every date beyond the data filters alike
PickerSlack == 1

\* variant of PickerDates with limits one day wider
PickerDates_wider(lo, hi) == (lo - PickerSlack - 1)..(hi + PickerSlack + 1)

\* the dates a range picker created with default value (lo, hi) and no
\* min_value/max_value offers: PickerSlack stands for the widget's ten years
PickerDates(lo, hi) == (lo - PickerSlack)..(hi + PickerSlack)

\* st.sidebar.date_input(label, (lo, hi)): the widget's value, the default
\* until the user has set one
date_input(widget, lo, hi) == IF widget = <<>> THEN <<lo, hi>> ELSE widget

\* the categorical axis sns.boxplot / sns.barplot leave behind for n categories
CategoricalAxis(n) ==
    IF n = 0 THEN [locator |-> "auto", ticks |-> 0]
    ELSE [locator |-> "category", ticks |-> n]

\* variant of SetTickLabelsRaises for ticks pinned by a FixedLocator
SetTickLabelsRaises_fixed(axis, labels) == axis.ticks # Len(labels)

\* Axes.set_xticklabels(labels)
SetTickLabelsRaises(axis, labels) ==
    axis.locator = "fixed" /\ axis.ticks # Len(labels)

TickLabels(axis, labels) ==
    [i \in 1..axis.ticks |-> IF i <= Len(labels) THEN labels[i] ELSE ""]

DayTypeLabels == <<"Hari Kerja", "Akhir Pekan">>
WeatherLabels == <<"Cerah", "Berawan", "Gerimis", "Hujan Lebat">>

----------------------------------------------------------------------------
(* main, lines 36-139 *)

\* pd.to_datetime(df['dteday']): the exception raised, "" when it converts
to_datetime(file) == IF file.kind = "baddate" THEN "ValueError" ELSE ""

\* nothing rendered, nothing computed
Blank ==
    [outcome |-> "none", exception |-> "", messages |-> {},
     date_filter_hour |-> <<>>, date_filter_day |-> <<>>,
     filtered_hour_df |-> <<>>, filtered_day_df |-> <<>>,
     average_rentals_per_hour |-> <<>>, average_rentals_by_weather |-> <<>>,
     ax4_xticklabels |-> <<>>, charts |-> <<>>]

\* lines 40-42: the run halts when load_data returned (None, None)
MustStop(res) == res.none

\* lines 89-139, given the two filtered tables
Present(r) ==
    LET per_hour == HourlyMeans(r.filtered_hour_df)
        ax2 == CategoricalAxis(Cardinality(
                   {r.filtered_hour_df[i].is_weekend :
                       i \in 1..Len(r.filtered_hour_df)}))
        by_weather == WeatherMeans(r.filtered_day_df)
        ax4 == CategoricalAxis(Len(by_weather))
        r1 == [r EXCEPT !.average_rentals_per_hour = per_hour,
                        !.charts = <<"fig1">>]
        r3 == [r1 EXCEPT !.charts = <<"fig1", "fig2", "fig3">>,
                         !.average_rentals_by_weather = by_weather]
    IN  IF SetTickLabelsRaises(ax2, DayTypeLabels)
            THEN [r1 EXCEPT !.outcome = "raised", !.exception = "ValueError"]
        ELSE IF SetTickLabelsRaises(ax4, WeatherLabels)
            THEN [r3 EXCEPT !.outcome = "raised", !.exception = "ValueError"]
        ELSE [r3 EXCEPT !.outcome = "done",
                        !.ax4_xticklabels = TickLabels(ax4, WeatherLabels),
                        !.charts = <<"fig1", "fig2", "fig3", "fig4">>]

\* one run of the script: res is what load_data() returned, widget_hour and
\* widget_day the values the user has given the two pickers (<<>> for none)
main(res, widget_hour, widget_day) ==
    IF MustStop(res)
        THEN [Blank EXCEPT !.outcome = "stopped",
                           !.messages = {[text |-> res.message,
                                          cause |-> res.cause]}]
    ELSE IF to_datetime(res.hour) # "" \/ to_datetime(res.day) # ""
        THEN [Blank EXCEPT !.outcome = "raised", !.exception = "ValueError"]
    ELSE
        LET hour_df_2012 == res.hour.rows
            day_df_summer_2011 == res.day.rows
            fh == date_input(widget_hour, min_date(hour_df_2012),
                             max_date(hour_df_2012))
            fd == date_input(widget_day, min_date(day_df_summer_2011),
                             max_date(day_df_summer_2011))
            r0 == [Blank EXCEPT !.date_filter_hour = fh,
                                !.date_filter_day = fd]
            r1 == [r0 EXCEPT !.filtered_hour_df = Mask(hour_df_2012, fh)]
            r2 == [r1 EXCEPT !.filtered_day_df = Mask(day_df_summer_2011, fd)]
        IN  IF Len(fh) < 2
                THEN [r0 EXCEPT !.outcome = "raised", !.exception = "IndexError"]
            ELSE IF Len(fd) < 2
                THEN [r1 EXCEPT !.outcome = "raised", !.exception = "IndexError"]
            ELSE Present(r2)

----------------------------------------------------------------------------
(* The session *)

BrokenFiles ==
    {<<File(kh, IF kh = "baddate" THEN HourSample ELSE NoTable),
       File(kd, IF kd = "baddate" THEN DaySample ELSE NoTable)>> :
        kh \in FileKinds \ {"ok"}, kd \in FileKinds \ {"ok"}}
    \cup {<<File(kh, IF kh = "baddate" THEN HourSample ELSE NoTable),
            File("ok", DaySample)>> : kh \in FileKinds \ {"ok"}}
    \cup {<<File("ok", HourSample),
            File(kd, IF kd = "baddate" THEN DaySample ELSE NoTable)>> :
            kd \in FileKinds \ {"ok"}}

\* the files the session starts with: every hourly table beside the daily
\* sample, every daily table beside the hourly sample, and the broken pairs
InitFiles ==
    {<<File("ok", h), File("ok", DaySample)>> : h \in HourTables}
    \cup {<<File("ok", HourSample), File("ok", d)>> : d \in DayTables}
    \cup BrokenFiles

Init ==
    /\ \E files \in InitFiles : hour_csv = files[1] /\ day_csv = files[2]
    /\ cache = EmptyCache
    /\ reads = 0
    /\ date_filter_hour = <<>>
    /\ date_filter_day = <<>>
    /\ outcome = "none"
    /\ exception = ""
    /\ messages = {}
    /\ filtered_hour_df = <<>>
    /\ filtered_day_df = <<>>
    /\ average_rentals_per_hour = <<>>
    /\ average_rentals_by_weather = <<>>
    /\ ax4_xticklabels = <<>>
    /\ charts = <<>>

\* a script run with the given widget values
Run(widget_hour, widget_day) ==
    \E res \in {IF CacheHit(cache) THEN cache.value
                ELSE load_data(hour_csv, day_csv)} :
    \E r \in {main(res, widget_hour, widget_day)} :
        /\ cache' = [filled |-> TRUE, value |-> res]
        /\ reads' = IF CacheHit(cache) THEN reads ELSE reads + 1
        /\ date_filter_hour' = r.date_filter_hour
        /\ date_filter_day' = r.date_filter_day
        /\ outcome' = r.outcome
        /\ exception' = r.exception
        /\ messages' = r.messages
        /\ filtered_hour_df' = r.filtered_hour_df
        /\ filtered_day_df' = r.filtered_day_df
        /\ average_rentals_per_hour' = r.average_rentals_per_hour
        /\ average_rentals_by_weather' = r.average_rentals_by_weather
        /\ ax4_xticklabels' = r.ax4_xticklabels
        /\ charts' = r.charts
        /\ UNCHANGED <<hour_csv, day_csv>>

\* the user opens the page: the first run
OpenPage ==
    /\ outcome = "none"
    /\ Run(<<>>, <<>>)

\* the user picks a start date in the hourly picker: the widget holds a
\* 1-tuple until the end date is picked, and the script reruns with it
PickHourStart ==
    /\ date_filter_hour # <<>>
    /\ \E a \in PickerDates(min_date(hour_csv.rows), max_date(hour_csv.rows)) :
          /\ <<a>> # date_filter_hour
          /\ Run(<<a>>, date_filter_day)

\* the user picks the end date, which completes the range and reruns the
\* script; nothing in the script orders the two dates
PickHourEnd ==
    /\ Len(date_filter_hour) = 1
    /\ \E b \in PickerDates(min_date(hour_csv.rows), max_date(hour_csv.rows)) :
          Run(<<date_filter_hour[1], b>>, date_filter_day)

PickDayStart ==
    /\ date_filter_day # <<>>
    /\ \E a \in PickerDates(min_date(day_csv.rows), max_date(day_csv.rows)) :
          /\ <<a>> # date_filter_day
          /\ Run(date_filter_hour, <<a>>)

PickDayEnd ==
    /\ Len(date_filter_day) = 1
    /\ \E b \in PickerDates(min_date(day_csv.rows), max_date(day_csv.rows)) :
          Run(date_filter_hour, <<date_filter_day[1], b>>)

Next ==
    \/ OpenPage
    \/ PickHourStart
    \/ PickHourEnd
    \/ PickDayStart
    \/ PickDayEnd

Spec == Init /\ [][Next]_vars

----------------------------------------------------------------------------
(* Vocabulary of the properties *)

\* the last run executed the hourly filter (lines 79-82) on a (start, end) pair
HourFiltered == Len(date_filter_hour) = 2

\* the last run executed both filters (lines 79-87), each on a pair
BothFiltered == Len(date_filter_hour) = 2 /\ Len(date_filter_day) = 2

\* df holds exactly the rows of table dated within [f[1], f[2]], each once
ExactlyWithin(df, table, f) ==
    /\ \A i \in 1..Len(df) :
          /\ df[i] \in Range(table)
          /\ f[1] <= df[i].dteday
          /\ df[i].dteday <= f[2]
    /\ \A i \in 1..Len(table) :
          (f[1] <= table[i].dteday /\ table[i].dteday <= f[2])
              => table[i] \in Range(df)
    /\ Cardinality(Range(df)) = Len(df)

\* the range f selects nothing of the table: backwards, or outside its span
Backwards(f) == f[1] > f[2]
OutsideSpan(table, f) == f[2] < min_date(table) \/ f[1] > max_date(table)

DataNotFound == [text |-> "Data files not found", cause |-> ""]
IsDataLoadError(m) == m.text = "Error loading data" /\ m.cause # ""

NothingRendered ==
    /\ charts = <<>>
    /\ date_filter_hour = <<>>
    /\ date_filter_day = <<>>

AllCharts == <<"fig1", "fig2", "fig3", "fig4">>

\* m is the mean of cnt over the non-empty table rows
IsMeanOver(m, rows) ==
    /\ rows # <<>>
    /\ m.den > 0
    /\ m.num * Len(rows) = SumCnt(rows) * m.den

----------------------------------------------------------------------------
(* C1 *)

\* C1: for each table, whenever the filter ran on a pair (start, end) with
\* start <= end, the filtered table holds exactly the rows dated within
\* [start, end], bounds included: none outside, none inside left out.
C1_FilterExact ==
    /\ (HourFiltered /\ ~Backwards(date_filter_hour))
          => ExactlyWithin(filtered_hour_df, hour_csv.rows, date_filter_hour)
    /\ (BothFiltered /\ ~Backwards(date_filter_day))
          => ExactlyWithin(filtered_day_df, day_csv.rows, date_filter_day)

\* a run whose hourly range keeps a row dated exactly at its end and drops
\* another row
C1_Witness ==
    /\ HourFiltered
    /\ date_filter_hour[1] <= date_filter_hour[2]
    /\ \E i \in 1..Len(filtered_hour_df) :
          filtered_hour_df[i].dteday = date_filter_hour[2]
    /\ Len(filtered_hour_df) < Len(hour_csv.rows)

(* C2 *)

\* C2: whenever both filters ran on pairs, a table whose pair is backwards
\* (start > end) or lies entirely outside the table's dates is filtered to
\* the empty table, and the run ends without an exception.
C2_EmptyNotError ==
    BothFiltered =>
        /\ (Backwards(date_filter_hour)
              \/ OutsideSpan(hour_csv.rows, date_filter_hour))
              => (filtered_hour_df = <<>> /\ exception = "")
        /\ (Backwards(date_filter_day)
              \/ OutsideSpan(day_csv.rows, date_filter_day))
              => (filtered_day_df = <<>> /\ exception = "")

\* a run with a backwards hourly range that has rows between its two dates
C2_Witness ==
    /\ BothFiltered
    /\ Backwards(date_filter_hour)
    /\ \E i \in 1..Len(hour_csv.rows) :
          /\ date_filter_hour[2] <= hour_csv.rows[i].dteday
          /\ hour_csv.rows[i].dteday <= date_filter_hour[1]
    /\ outcome = "done"

(* C3 *)

\* C3 as stated: after a run with either data file missing, the one message
\* shown is the files-not-found message, the run was stopped, and no chart
\* and no date picker was rendered.
C3_MissingIsNotFound ==
    (outcome # "none"
        /\ (hour_csv.kind = "missing" \/ day_csv.kind = "missing"))
        => (messages = {DataNotFound} /\ outcome = "stopped" /\ NothingRendered)

\* C3 amended: after a run with either data file missing the run was stopped
\* with one message and no chart and no date picker rendered; the message is
\* the files-not-found message when the hourly file is the missing one, or
\* when the hourly file was read and the daily file is the missing one.
C3_FirstFailureReported ==
    outcome # "none" =>
        /\ (hour_csv.kind = "missing" \/ day_csv.kind = "missing")
              => /\ outcome = "stopped"
                 /\ NothingRendered
                 /\ Cardinality(messages) = 1
        /\ (\/ hour_csv.kind = "missing"
            \/ hour_csv.kind \in {"ok", "baddate"} /\ day_csv.kind = "missing")
              => messages = {DataNotFound}

\* a stopped run in which the hourly file was read and the daily is missing
C3_Witness ==
    /\ outcome = "stopped"
    /\ hour_csv.kind = "ok"
    /\ day_csv.kind = "missing"
    /\ messages = {DataNotFound}

(* C4 *)

\* C4: after a run whose load failed for another reason than a missing file
\* (a file that does not parse, or a date column that is no date), the run
\* was stopped with a load-error message carrying the cause, no exception
\* went unhandled, and nothing was rendered.
C4_LoadErrorReported ==
    (outcome # "none"
        /\ \/ hour_csv.kind = "malformed"
           \/ hour_csv.kind \in {"ok", "baddate"} /\ day_csv.kind = "malformed"
           \/ /\ {hour_csv.kind, day_csv.kind} \subseteq {"ok", "baddate"}
              /\ "baddate" \in {hour_csv.kind, day_csv.kind})
        => /\ outcome = "stopped"
           /\ exception = ""
           /\ \E m \in messages : IsDataLoadError(m)
           /\ charts = <<>>

(* C5 *)

\* C5: whenever both filters ran and a filtered table is empty, the
\* aggregation over that table is empty, and the run finishes having
\* rendered all four charts without an exception.
C5_EmptyTablesRender ==
    (BothFiltered /\ (filtered_hour_df = <<>> \/ filtered_day_df = <<>>))
        => /\ outcome = "done"
           /\ exception = ""
           /\ charts = AllCharts
           /\ filtered_hour_df = <<>> => average_rentals_per_hour = <<>>
           /\ filtered_day_df = <<>>
                 => (average_rentals_by_weather = <<>> /\ ax4_xticklabels = <<>>)

\* a finished run with an empty hourly and a non-empty daily table
C5_Witness ==
    /\ BothFiltered
    /\ filtered_hour_df = <<>>
    /\ filtered_day_df # <<>>
    /\ charts = AllCharts

(* C6 *)

\* C6: once load_data has run, no later run of the script reads the files
\* again or changes the cached result, whatever the pickers are set to; the
\* files are read at most once in the session.
C6_ReadOnce ==
    [][/\ cache.filled => (reads' = reads /\ cache' = cache)
       /\ reads' <= 1]_vars

\* a finished rerun after a successful load, with the hourly picker moved
\* off its default range
C6_Witness ==
    /\ reads = 1
    /\ ~cache.value.none
    /\ outcome = "done"
    /\ date_filter_hour # <<min_date(hour_csv.rows), max_date(hour_csv.rows)>>

(* C7 *)

HourExample == <<[hr |-> 8, is_weekend |-> 0, cnt |-> 100],
                 [hr |-> 8, is_weekend |-> 1, cnt |-> 40]>>

\* C7: after a finished run the hourly aggregation has one group per
\* (hr, is_weekend) pair occurring in the filtered hourly table and no other,
\* each holding the mean of cnt over the rows with that pair, in increasing
\* order of (hr, is_weekend); rows (8, 0, 100) and (8, 1, 40) give the two
\* groups (8, 0) with mean 100 and (8, 1) with mean 40.
C7_HourlyGroups ==
    outcome = "done" =>
        LET g == average_rentals_per_hour
            df == filtered_hour_df
        IN  /\ {<<g[i].hr, g[i].is_weekend>> : i \in 1..Len(g)}
                  = {<<df[j].hr, df[j].is_weekend>> : j \in 1..Len(df)}
            /\ \A i \in 1..Len(g) :
                  IsMeanOver(g[i].cnt,
                      SelectSeq(df, LAMBDA r : /\ r.hr = g[i].hr
                                               /\ r.is_weekend = g[i].is_weekend))
            /\ \A i \in 1..(Len(g) - 1) :
                  \/ g[i].hr < g[i + 1].hr
                  \/ g[i].hr = g[i + 1].hr /\ g[i].is_weekend < g[i + 1].is_weekend
            /\ [j \in 1..Len(df) |->
                   [hr |-> df[j].hr, is_weekend |-> df[j].is_weekend,
                    cnt |-> df[j].cnt]] = HourExample
                  => g = <<[hr |-> 8, is_weekend |-> 0, cnt |-> [num |-> 100, den |-> 1]],
                           [hr |-> 8, is_weekend |-> 1, cnt |-> [num |-> 40, den |-> 1]]>>

\* a finished run whose one hourly group averages two rows, 40 and 100, to 70
C7_Witness ==
    /\ outcome = "done"
    /\ Len(filtered_hour_df) = 2
    /\ filtered_hour_df[1].cnt # filtered_hour_df[2].cnt
    /\ Len(average_rentals_per_hour) = 1
    /\ average_rentals_per_hour[1].cnt = [num |-> 70, den |-> 1]

(* C8 *)

\* C8: after a finished run the weather aggregation has at most four groups,
\* each for a different one of the four known categories that has a row in
\* the filtered daily table, one for every such category, and each holding
\* the mean of cnt over the rows of its own category.
C8_WeatherGroups ==
    outcome = "done" =>
        LET g == average_rentals_by_weather
            df == filtered_day_df
        IN  /\ Len(g) <= 4
            /\ \A i \in 1..Len(g) : g[i].weathersit \in WeatherCodes
            /\ \A i, j \in 1..Len(g) : g[i].weathersit = g[j].weathersit => i = j
            /\ {g[i].weathersit : i \in 1..Len(g)}
                  = {df[j].weathersit : j \in 1..Len(df)}
            /\ \A i \in 1..Len(g) :
                  IsMeanOver(g[i].cnt,
                      SelectSeq(df, LAMBDA r : r.weathersit = g[i].weathersit))

\* a finished run with two daily rows of different categories and counts
C8_Witness ==
    /\ outcome = "done"
    /\ Len(filtered_day_df) = 2
    /\ filtered_day_df[1].weathersit # filtered_day_df[2].weathersit
    /\ filtered_day_df[1].cnt # filtered_day_df[2].cnt
    /\ Len(average_rentals_by_weather) = 2

(* C9 *)

\* C9 as stated: every pair a picker delivers lies within its own table's
\* first and last date.
C9_BoundedToData ==
    /\ Len(date_filter_hour) = 2
          => /\ min_date(hour_csv.rows) <= date_filter_hour[1]
             /\ date_filter_hour[2] <= max_date(hour_csv.rows)
    /\ Len(date_filter_day) = 2
          => /\ min_date(day_csv.rows) <= date_filter_day[1]
             /\ date_filter_day[2] <= max_date(day_csv.rows)

\* C9 amended: every date a picker delivers lies within the widget's default
\* limits around its own table's dates, from ten years (PickerSlack) before
\* the first date to ten years after the last.
C9_BoundedToDefaultLimits ==
    /\ \A i \in 1..Len(date_filter_hour) :
          /\ min_date(hour_csv.rows) - PickerSlack <= date_filter_hour[i]
          /\ date_filter_hour[i] <= max_date(hour_csv.rows) + PickerSlack
    /\ \A i \in 1..Len(date_filter_day) :
          /\ min_date(day_csv.rows) - PickerSlack <= date_filter_day[i]
          /\ date_filter_day[i] <= max_date(day_csv.rows) + PickerSlack

\* a finished run whose hourly range starts at the limit before the data
\* and ends at the limit after it
C9_Witness ==
    /\ outcome = "done"
    /\ date_filter_hour = <<min_date(hour_csv.rows) - PickerSlack,
                            max_date(hour_csv.rows) + PickerSlack>>

(* C10 *)

\* C10: after a finished run every bar of the weather chart carries the name
\* of its own category: Cerah for 1, Berawan for 2, Gerimis for 3, Hujan
\* Lebat for 4.
C10_BarsNamedByCategory ==
    outcome = "done" =>
        /\ Len(ax4_xticklabels) = Len(average_rentals_by_weather)
        /\ \A i \in 1..Len(average_rentals_by_weather) :
              ax4_xticklabels[i]
                  = WeatherLabels[average_rentals_by_weather[i].weathersit]

====
